---- MODULE Spec2Model ----
(***************************************************************************)
(* Simulate_Portfolio of Reinfocement_Learning/enviroment.py as a state    *)
(* machine.  Dates are day numbers; the price provider (yfinance) is an    *)
(* external collaborator that reports a fixed market history (Trades,      *)
(* Close); money is exact rational arithmetic <<num, den>>, the float64    *)
(* values of the program without rounding error.  Each method call is one  *)
(* action, and last records the call and how it ended.                     *)
(***************************************************************************)
EXTENDS Integers, Sequences, FiniteSets, TLC

\* ---------------------------------------------------------------- bounds
Names == {"X", "Y"}          \* symbols a caller may pass
InitDates == {0}             \* init_datetime handed to the constructor
Now == 4                     \* wall-clock datetime.now(): cached series end before it;
                             \* next_timestep is not called with the clock at or past it
StartBalance == 2            \* balance handed to the constructor
MaxValue == 2                \* update_investment values are -MaxValue..MaxValue
MaxAmount == 2               \* update_investment is not called when it would pass it
RetryCap == 1000             \* the documented cap on forward-search advances
DatetimeMax == 3652059       \* datetime.max as a day number: a day added to it
                             \* raises OverflowError

\* The market the provider reports: the days a symbol trades (X rests every
\* third day, Y every fifth, on different days) and its close on such a day.
Trades(name, day) ==
  IF name = "X" THEN day % 3 # 1 ELSE day % 5 # 3

Close(name, day) ==
  IF name = "X" THEN (IF day % 2 = 0 THEN 1 ELSE 2)
                ELSE (IF day % 2 = 0 THEN 2 ELSE 1)
Values == (0 - MaxValue)..MaxValue

\* the days on which the "zero" history reports a close of 0 for Y
ZeroDays == {0 - 1, 2}

\* ------------------------------------------------------- exact arithmetic
Abs(n) == IF n < 0 THEN 0 - n ELSE n

RECURSIVE GCD(_, _)
GCD(a, b) == IF b = 0 THEN a ELSE GCD(b, a % b)

\* A denominator of 0 is a float that is not finite: <<1, 0>> is inf,
\* <<-1, 0>> is -inf and <<0, 0>> is nan, which numpy yields on a division
\* by 0 without raising.
Sgn(n) == IF n < 0 THEN 0 - 1 ELSE IF n > 0 THEN 1 ELSE 0
NaN == <<0, 0>>
IsNaN(a) == a = NaN

Norm(n, d) ==
  LET g == GCD(Abs(n), d)
  IN  IF d = 0 THEN <<Sgn(n), 0>>
      ELSE IF n = 0 THEN <<0, 1>> ELSE <<n \div g, d \div g>>

Rat(n) == <<n, 1>>
Zero == Rat(0)
RAdd(a, b) == IF a[2] = 0 /\ b[2] = 0
              THEN (IF a = b THEN a ELSE NaN)
              ELSE Norm(a[1] * b[2] + b[1] * a[2], a[2] * b[2])
RSub(a, b) == IF a[2] = 0 /\ b[2] = 0
              THEN (IF a[1] + b[1] = 0 THEN a ELSE NaN)
              ELSE Norm(a[1] * b[2] - b[1] * a[2], a[2] * b[2])
RMul(a, b) == Norm(a[1] * b[1], a[2] * b[2])
RDiv(a, b) == IF b[1] >= 0 THEN Norm(a[1] * b[2], a[2] * b[1])
                           ELSE Norm(0 - a[1] * b[2], a[2] * (0 - b[1]))
RLeq(a, b) == ~IsNaN(a) /\ ~IsNaN(b) /\ a[1] * b[2] <= b[1] * a[2]
RLess(a, b) == ~IsNaN(a) /\ ~IsNaN(b) /\ a[1] * b[2] < b[1] * a[2]

\* ------------------------------------------------------------------ state
VARIABLES
  investments,               \* self.investments: names in dict insertion order
  investments_timesteps,     \* self.investments_timesteps: name -> list of closes
  investments_future_steps,  \* self.investments_future_steps: name -> (day -> close)
  investments_states,        \* self.investments_states: name -> [price, hold]
  datetime,                  \* self.datetime
  init_date,                 \* self.init_date
  timestep,                  \* self.timestep
  balance,                   \* self.balance
  init_balane,               \* self.init_balane
  market,                    \* the history the provider reports: "quoted" has
                             \* every close > 0, "zero" has closes of 0 too
  last                       \* the last call: operation, arguments, outcome

vars == <<investments, investments_timesteps, investments_future_steps,
          investments_states, datetime, init_date, timestep, balance,
          init_balane, market, last>>

NoCall == [op |-> "init", name |-> "", value |-> 0, err |-> "ok", adv |-> 0]

Constructed ==
  /\ investments = <<>>
  /\ investments_timesteps = <<>>
  /\ investments_future_steps = <<>>
  /\ investments_states = <<>>
  /\ datetime \in InitDates
  /\ init_date = datetime
  /\ timestep = 0
  /\ balance = Rat(StartBalance)
  /\ init_balane = Rat(StartBalance)
  /\ last = NoCall

Init == Constructed /\ market = "quoted"

\* the same simulator over a history in which Y is quoted at 0 on some days
InitZero == Constructed /\ market = "zero"

\* dict helpers: a dict is a function whose DOMAIN is its key set
Put(d, k, v) == [x \in (DOMAIN d) \cup {k} |-> IF x = k THEN v ELSE d[x]]
Keys(seq) == {seq[i] : i \in DOMAIN seq}
PutKey(seq, k) == IF k \in Keys(seq) THEN seq ELSE Append(seq, k)


\* ------------------------------------------------------------- provider
\* the close the provider reports for a symbol on a trading day
Quote(name, day) ==
  IF market = "zero" /\ name = "Y" /\ day \in ZeroDays THEN 0
  ELSE Close(name, day)

\* 'Close' of history(start=d-1day, end=d, interval='1d'): the window holds
\* the bar of day d-1, and is empty when the symbol did not trade that day
Lookback(name, d) ==
  IF Trades(name, d - 1) THEN <<Quote(name, d - 1)>> ELSE <<>>

\* 'Close' of history(start=d, end=now, interval='1d'): the closes of the
\* trading days d..Now-1, indexed by day
ForwardSeries(name, d) ==
  [day \in {x \in d..(Now - 1) : Trades(name, x)} |-> Quote(name, day)]

\* ------------------------------------------------------------- getters
RECURSIVE SumHold_Prices(_, _)
SumHold_Prices(states, ks) ==
  IF ks = {} THEN Zero
  ELSE LET k == CHOOSE x \in ks : TRUE
       IN  RAdd(states[k].price, SumHold_Prices(states, ks \ {k}))

RECURSIVE SumHold(_, _)
SumHold(states, ks) ==
  IF ks = {} THEN Zero
  ELSE LET k == CHOOSE x \in ks : TRUE
       IN  RAdd(states[k].hold, SumHold(states, ks \ {k}))

get_portfolio_net_of(bal, states) == RAdd(bal, SumHold(states, DOMAIN states))
get_portfolio_net == get_portfolio_net_of(balance, investments_states)
calc_profit == RSub(get_portfolio_net, init_balane)
return_state(name) ==
  <<investments_states[name].price, investments_states[name].hold, balance>>

\* ------------------------------------------------------- add_investment
Call(op, name, value, err, adv) ==
  [op |-> op, name |-> name, value |-> value, err |-> err, adv |-> adv]

SeedState(close) == [price |-> Rat(close), hold |-> Zero]

AddInvestment(name) ==
  LET lb == Lookback(name, datetime)
      fs == ForwardSeries(name, datetime)
  IN
    IF lb = <<>>
    THEN \* line 124 has run, .iloc[-1] of line 125 raises IndexError
         /\ investments' = PutKey(investments, name)
         /\ last' = Call("add_investment", name, 0, "IndexError", 0)
         /\ UNCHANGED <<investments_timesteps, investments_future_steps,
                        investments_states, datetime, init_date, timestep,
                        balance, init_balane, market>>
    ELSE /\ investments' = PutKey(investments, name)
         /\ investments_timesteps' =
              Put(investments_timesteps, name, <<lb[Len(lb)]>>)
         /\ investments_future_steps' = Put(investments_future_steps, name, fs)
         /\ investments_states' =
              Put(investments_states, name, SeedState(lb[Len(lb)]))
         /\ last' = Call("add_investment", name, 0, "ok", 0)
         /\ UNCHANGED <<datetime, init_date, timestep, balance, init_balane,
                        market>>


\* ------------------------------------------------- get_current_timestep_sim
\* The while-True loop: look dtime up in the cached series, on a miss move
\* one day on.  n counts the moves.  Once no key of the series is at or after
\* dtime every further lookup misses, and the loop runs until dtime +
\* timedelta(days=1) overflows: DatetimeMax - dtime more moves, then
\* OverflowError leaves the loop.
RECURSIVE Search(_, _, _)
Search(df, dtime, n) ==
  IF dtime \in DOMAIN df
  THEN [found |-> TRUE, val |-> df[dtime], date |-> dtime, adv |-> n]
  ELSE IF \A x \in DOMAIN df : x < dtime
       THEN [found |-> FALSE, val |-> 0, date |-> DatetimeMax,
             adv |-> n + (DatetimeMax - dtime)]
       ELSE Search(df, dtime + 1, n + 1)

get_current_timestep_sim_Earlier(futures, name, clock) ==
  Search(futures[name], clock - 1, 0)

get_current_timestep_sim(futures, name, clock) == Search(futures[name], clock, 0)

\* ---------------------------------------------------------- next_timestep
Max(a, b) == IF a < b THEN b ELSE a

Rebase_KeepHold(previous_state, close) ==
  [price |-> Rat(close), hold |-> previous_state.hold]

Rebase_NoDivide(previous_state, close) ==
  [price |-> Rat(close), hold |-> RMul(Rat(close), previous_state.hold)]

Rebase_Shift(previous_state, close) ==
  [price |-> Rat(close),
   hold  |-> RAdd(previous_state.hold, RSub(Rat(close), previous_state.price))]

\* current_state = timestep * previous_state / previous_state[0]
Rebase(previous_state, close) ==
  [price |-> RDiv(RMul(Rat(close), previous_state.price), previous_state.price),
   hold  |-> RDiv(RMul(Rat(close), previous_state.hold), previous_state.price)]

\* the for loop over self.investments.items() from position i on; st is the
\* part of the object the loop writes, and the loop stops at the first raise
RECURSIVE Walk(_, _)
Walk(i, st) ==
  IF i > Len(investments) THEN st
  ELSE LET name == investments[i]
       IN  IF name \notin DOMAIN st.states
           THEN [st EXCEPT !.err = "KeyError"]
           ELSE LET r == get_current_timestep_sim(investments_future_steps,
                                                  name, st.datetime)
                IN  IF ~r.found
                    THEN [st EXCEPT !.err = "OverflowError",
                                    !.adv = Max(st.adv, r.adv)]
                    ELSE Walk(i + 1,
                           [datetime  |-> r.date,
                            timesteps |-> [st.timesteps EXCEPT
                                            ![name] = Append(@, r.val)],
                            states    |-> [st.states EXCEPT
                                            ![name] = Rebase(@, r.val)],
                            err       |-> "ok",
                            adv       |-> Max(st.adv, r.adv)])

AfterStep ==
  Walk(1, [datetime  |-> datetime + 1,
           timesteps |-> investments_timesteps,
           states    |-> investments_states,
           err       |-> "ok",
           adv       |-> 0])

NextTimestep ==
  /\ datetime < Now
  /\ datetime' = AfterStep.datetime
  /\ investments_timesteps' = AfterStep.timesteps
  /\ investments_states' = AfterStep.states
  /\ last' = Call("next_timestep", "", 0, AfterStep.err, AfterStep.adv)
  /\ UNCHANGED <<investments, investments_future_steps, init_date, timestep,
                 balance, init_balane, market>>

\* ------------------------------------------------------ update_investment
Accepts_Strict(value, bal) == RLess(Rat(value), bal)
Accepts(value, bal) == RLeq(Rat(value), bal)
NewHold_Target(hold, value) == Rat(value)
NewHold(hold, value) == RAdd(hold, Rat(value))
NewBalance_Kept(bal, value) == bal
NewBalance(bal, value) == RSub(bal, Rat(value))

update_investment_WholeRow(bal, states, name, value) ==
  IF ~Accepts(value, bal)
  THEN [balance |-> bal, states |-> states, err |-> "ValueError"]
  ELSE IF name \notin DOMAIN states
  THEN [balance |-> bal, states |-> states, err |-> "KeyError"]
  ELSE [balance |-> NewBalance(bal, value),
        states  |-> [states EXCEPT
                       ![name] = [price |-> RAdd(@.price, Rat(value)),
                                  hold  |-> NewHold(@.hold, value)]],
        err     |-> "ok"]

update_investment_DebitFirst(bal, states, name, value) ==
  IF ~Accepts(value, bal)
  THEN [balance |-> bal, states |-> states, err |-> "ValueError"]
  ELSE IF name \notin DOMAIN states
  THEN [balance |-> NewBalance(bal, value), states |-> states, err |-> "KeyError"]
  ELSE [balance |-> NewBalance(bal, value),
        states  |-> [states EXCEPT ![name].hold = NewHold(@, value)],
        err     |-> "ok"]

\* the call as a function of the object: what it leaves and how it ends
update_investment(bal, states, name, value) ==
  IF ~Accepts(value, bal)
  THEN [balance |-> bal, states |-> states, err |-> "ValueError"]
  ELSE IF name \notin DOMAIN states
  THEN [balance |-> bal, states |-> states, err |-> "KeyError"]
  ELSE [balance |-> NewBalance(bal, value),
        states  |-> [states EXCEPT ![name].hold = NewHold(@, value)],
        err     |-> "ok"]

\* the explored calls: an accepted one leaves the balance and the holding
\* within MaxAmount
InRange(r, name) ==
  r.err = "ok" =>
    /\ RLeq(r.balance, Rat(MaxAmount))
    /\ RLeq(r.states[name].hold, Rat(MaxAmount))
    /\ RLeq(Rat(0 - MaxAmount), r.states[name].hold)

UpdateInvestment(name, value) ==
  /\ InRange(update_investment(balance, investments_states, name, value), name)
  /\ LET r == update_investment(balance, investments_states, name, value)
     IN  /\ investments_states' = r.states
         /\ balance' = r.balance
         /\ last' = Call("update_investment", name, value, r.err, 0)
  /\ UNCHANGED <<investments, investments_timesteps, investments_future_steps,
                 datetime, init_date, timestep, init_balane, market>>

\* --------------------------------------------------------- reset_to_start
ResetToStart_KeepClock ==
  /\ investments_timesteps' = <<>>
  /\ investments' = <<>>
  /\ investments_future_steps' = <<>>
  /\ investments_states' = <<>>
  /\ timestep' = 0
  /\ balance' = init_balane
  /\ last' = Call("reset_to_start", "", 0, "ok", 0)
  /\ UNCHANGED <<datetime, init_date, init_balane, market>>

ResetToStart ==
  /\ investments_timesteps' = <<>>
  /\ investments' = <<>>
  /\ investments_future_steps' = <<>>
  /\ investments_states' = <<>>
  /\ datetime' = init_date
  /\ timestep' = 0
  /\ balance' = init_balane
  /\ last' = Call("reset_to_start", "", 0, "ok", 0)
  /\ UNCHANGED <<init_date, init_balane, market>>

Next ==
  \/ \E name \in Names : AddInvestment(name)
  \/ NextTimestep
  \/ \E name \in Names, value \in Values : UpdateInvestment(name, value)
  \/ ResetToStart

Spec == Init /\ [][Next]_vars

SpecZero == InitZero /\ [][Next]_vars

\* ---------------------------------------------------------------- getters
\* the three read-only methods as calls of their own
GetPortfolioNet ==
  /\ last' = Call("get_portfolio_net", "", 0, "ok", 0)
  /\ UNCHANGED <<investments, investments_timesteps, investments_future_steps,
                 investments_states, datetime, init_date, timestep, balance,
                 init_balane, market>>

CalcProfit ==
  /\ last' = Call("calc_profit", "", 0, "ok", 0)
  /\ UNCHANGED <<investments, investments_timesteps, investments_future_steps,
                 investments_states, datetime, init_date, timestep, balance,
                 init_balane, market>>

ReturnState(name) ==
  /\ last' = Call("return_state", name, 0,
                  IF name \in DOMAIN investments_states THEN "ok" ELSE "KeyError",
                  0)
  /\ UNCHANGED <<investments, investments_timesteps, investments_future_steps,
                 investments_states, datetime, init_date, timestep, balance,
                 init_balane, market>>

NextWithGetters ==
  \/ Next
  \/ GetPortfolioNet
  \/ CalcProfit
  \/ \E name \in Names : ReturnState(name)

SpecGetters == Init /\ [][NextWithGetters]_vars

\* ========================================================== properties
Tracked == DOMAIN investments_states
Hold(name) == investments_states[name].hold
Price(name) == investments_states[name].price
Clamp(x, lo, hi) == IF RLess(x, lo) THEN lo ELSE IF RLess(hi, x) THEN hi ELSE x
Final(seq) == seq[Len(seq)]
IsUpdate(l) == l.op = "update_investment"
IsStep(l) == l.op = "next_timestep"

\* C1: every update_investment call, accepted or rejected, leaves
\* get_portfolio_net() (balance plus the sum of the holdings) as it was.
C1_UpdateKeepsNet ==
  [][IsUpdate(last') =>
       get_portfolio_net_of(balance', investments_states') = get_portfolio_net]_vars

\* a state right after an accepted update_investment that moved money
C1_Witness ==
  /\ IsUpdate(last) /\ last.err = "ok" /\ last.value # 0
  /\ Hold(last.name) # Zero

C4_Rebased ==
  [][IsStep(last') /\ last'.err = "ok" =>
       \A name \in Tracked :
         LET close == Final(investments_timesteps'[name])
         IN  /\ Len(investments_timesteps'[name]) =
                  Len(investments_timesteps[name]) + 1
             /\ \E day \in DOMAIN investments_future_steps[name] :
                  /\ day > datetime /\ day <= datetime'
                  /\ investments_future_steps[name][day] = close
             /\ investments_states'[name].price = Rat(close)
             /\ investments_states'[name].hold =
                  RMul(Rat(close), RDiv(Hold(name), Price(name)))]_vars

Previous(seq) == seq[Len(seq) - 1]

\* a state right after a successful step over a rise of the close of an
\* asset that is held: the holding rose with it and there is a profit
C4_Witness ==
  /\ IsStep(last) /\ last.err = "ok"
  /\ \E name \in Tracked :
       /\ RLess(Zero, Hold(name))
       /\ Len(investments_timesteps[name]) >= 2
       /\ Final(investments_timesteps[name]) >
            Previous(investments_timesteps[name])
  /\ RLess(Zero, calc_profit)

\* C5 as claimed: next_timestep leaves get_portfolio_net() as it was.
C5_StepKeepsNet ==
  [][IsStep(last') =>
       get_portfolio_net_of(balance', investments_states') = get_portfolio_net]_vars

RECURSIVE SumReturn(_, _, _)
SumReturn(before, after, ks) ==
  IF ks = {} THEN Zero
  ELSE LET k == CHOOSE x \in ks : TRUE
       IN  RAdd(RMul(before[k].hold, RDiv(after[k].price, before[k].price)),
                SumReturn(before, after, ks \ {k}))

\* C5 as amended: next_timestep leaves the balance as it was and changes
\* get_portfolio_net() only by each asset's price return on its own holding:
\* the net after is balance + sum of holding * new price / old price, which
\* is the net before when every holding is 0.
C5_StepMovesNetByReturn ==
  [][IsStep(last') =>
       /\ balance' = balance
       /\ DOMAIN investments_states' = Tracked
       /\ get_portfolio_net_of(balance', investments_states') =
            RAdd(balance, SumReturn(investments_states, investments_states', Tracked))
       /\ (\A name \in Tracked : Hold(name) = Zero) =>
            get_portfolio_net_of(balance', investments_states') = get_portfolio_net]_vars

\* a state right after a step over a price move of an asset that is held,
\* with a net that is no longer the initial balance
C5_Witness ==
  /\ IsStep(last)
  /\ \E name \in Tracked :
       /\ Hold(name) # Zero
       /\ Len(investments_timesteps[name]) >= 2
       /\ Final(investments_timesteps[name]) #
            Previous(investments_timesteps[name])
  /\ get_portfolio_net # init_balane

\* C6: the forward search of next_timestep moves on at most RetryCap times,
\* and a call that finds no observation ends with NoObservationFound.
C6_SearchCapped ==
  IsStep(last) =>
    /\ last.adv <= RetryCap
    /\ last.err # "OverflowError"

\* C7: a next_timestep that runs out of observations leaves the clock, the
\* balance and every asset's price and holding as they were.
C7_FailedStepKeepsState ==
  [][IsStep(last') /\ last'.err = "OverflowError" =>
       /\ datetime' = datetime
       /\ balance' = balance
       /\ investments_states' = investments_states]_vars

\* C8: reset_to_start leaves balance = init_balance, clock = init_clock, no
\* asset, no state and no cached series, and the initial values are the
\* constructor's in every state.
C8_ResetRestores ==
  /\ init_balane = Rat(StartBalance)
  /\ init_date \in InitDates
  /\ last.op = "reset_to_start" =>
       /\ balance = init_balane
       /\ datetime = init_date
       /\ investments = <<>>
       /\ investments_states = <<>>
       /\ investments_future_steps = <<>>
       /\ investments_timesteps = <<>>

\* a state right after a reset
C8_Witness ==
  /\ last.op = "reset_to_start"
  /\ balance = Rat(StartBalance)
  /\ investments = <<>>

\* C9: add_investment installs all of an asset's entries or none: the
\* registered assets are the assets with a state and a cached series, and
\* next_timestep never meets a registered asset without a state.
C9_AddAllOrNothing ==
  /\ Keys(investments) = DOMAIN investments_states
  /\ Keys(investments) = DOMAIN investments_future_steps
  /\ Keys(investments) = DOMAIN investments_timesteps
  /\ IsStep(last) => last.err # "KeyError"

\* C10: the balance and every holding are >= 0 in every reachable state.
C10_NonNegative ==
  /\ RLeq(Zero, balance)
  /\ \A name \in Tracked : RLeq(Zero, Hold(name))

\* the latest day of a cached series at or before day d
LatestDay(df, d) ==
  CHOOSE x \in DOMAIN df : x <= d /\ \A y \in DOMAIN df : y <= d => y <= x

\* C11: after a successful next_timestep every tracked asset's price is its
\* most recent cached close at the clock: no asset is valued at an earlier
\* day while it has an observation at the final clock.
C11_PriceAtClock ==
  (IsStep(last) /\ last.err = "ok") =>
    \A name \in Tracked :
      LET df == investments_future_steps[name]
      IN  /\ \E x \in DOMAIN df : x <= datetime
          /\ Price(name) = Rat(df[LatestDay(df, datetime)])

\* C12: next_timestep never changes the balance and leaves a holding of 0 at
\* 0 whatever the price does, also when the call fails part of the way; of
\* all the calls only update_investment makes a holding of 0 nonzero.
C12_ZeroStaysZero ==
  [][/\ IsStep(last') =>
          (/\ balance' = balance
           /\ \A name \in Tracked :
                (Hold(name) = Zero => investments_states'[name].hold = Zero))
     /\ ~IsUpdate(last') =>
          (\A name \in Tracked \cap DOMAIN investments_states' :
             (Hold(name) = Zero => investments_states'[name].hold = Zero))]_vars

\* a state right after a step over a price move of an asset that holds 0,
\* next to an asset that holds something
C12_Witness ==
  /\ IsStep(last) /\ last.err = "ok"
  /\ \E name \in Tracked :
       /\ Hold(name) = Zero
       /\ Len(investments_timesteps[name]) >= 2
       /\ Final(investments_timesteps[name]) #
            Previous(investments_timesteps[name])
  /\ \E name \in Tracked : Hold(name) # Zero

\* C15: update_investment writes only the balance and the holding of the
\* named asset: the clock, the registrations, the price histories, the cached
\* series, every price and every other asset's holding stay as they were.
C15_UpdateFrame ==
  [][IsUpdate(last') =>
       (/\ datetime' = datetime
        /\ investments' = investments
        /\ investments_timesteps' = investments_timesteps
        /\ investments_future_steps' = investments_future_steps
        /\ DOMAIN investments_states' = Tracked
        /\ \A name \in Tracked :
             /\ investments_states'[name].price = Price(name)
             /\ (name # last'.name =>
                   investments_states'[name].hold = Hold(name)))]_vars

\* a state right after an accepted update_investment on one of two tracked
\* assets, the other one holding something and both having been stepped
C15_Witness ==
  /\ IsUpdate(last) /\ last.err = "ok" /\ last.value # 0
  /\ \E other \in Tracked : other # last.name /\ Hold(other) # Zero
  /\ datetime > init_date

\* C16: an update_investment with value > balance or with a name that has no
\* state raises, and leaves the balance and every asset's state as they
\* were.
C16_RejectedUpdateKeepsState ==
  [][(IsUpdate(last') /\
        (RLess(balance, Rat(last'.value)) \/ last'.name \notin Tracked)) =>
       (/\ last'.err \in {"ValueError", "KeyError"}
        /\ balance' = balance
        /\ investments_states' = investments_states
        /\ datetime' = datetime
        /\ investments' = investments)]_vars

\* a state right after an update_investment of an affordable value on a name
\* that is not tracked
C16_Witness ==
  /\ IsUpdate(last) /\ last.err = "KeyError"
  /\ last.name \notin Tracked
  /\ last.value # 0

\* C17: add_investment leaves get_portfolio_net(), the balance and every
\* tracked asset's holding as they were, also for a name that is tracked
\* and holds something.
C17_AddKeepsNet ==
  [][last'.op = "add_investment" =>
       (/\ balance' = balance
        /\ get_portfolio_net_of(balance', investments_states') = get_portfolio_net
        /\ \A name \in Tracked :
             /\ name \in DOMAIN investments_states'
             /\ investments_states'[name].hold = Hold(name))]_vars

\* C18: a successful next_timestep leaves the clock at least a day later,
\* exactly a day later when no asset is registered, and no call but
\* reset_to_start moves the clock back.
C18_ClockMonotonic ==
  [][/\ (IsStep(last') /\ last'.err = "ok") =>
          (/\ datetime' >= datetime + 1
           /\ (investments = <<>> => datetime' = datetime + 1))
     /\ last'.op # "reset_to_start" => datetime' >= datetime]_vars

\* a state right after a successful step that skipped a day without a bar:
\* the clock is past the day after the one the asset was last valued at
C18_Witness ==
  /\ IsStep(last) /\ last.err = "ok" /\ last.adv >= 1
  /\ investments # <<>>
  /\ datetime >= init_date + 2

\* C13: every tracked asset's price is > 0 in every reachable state, also
\* over a history that reports closes of 0: add_investment refuses a seed
\* close of 0 and next_timestep never installs a price of 0 or divides by
\* one.
C13_PricePositive ==
  \A name \in Tracked : RLess(Zero, Price(name))


IsGetter(l) == l.op \in {"get_portfolio_net", "calc_profit", "return_state"}
HoldOrZero(name) == IF name \in Tracked THEN Hold(name) ELSE Zero

RECURSIVE HoldingsUpTo(_)
HoldingsUpTo(i) ==
  IF i = 0 THEN Zero
  ELSE RAdd(HoldingsUpTo(i - 1), HoldOrZero(investments[i]))

\* C14: the getters are pure. A call of get_portfolio_net, calc_profit or
\* return_state changes no field of the portfolio, and what it returns is
\* balance plus the sum of the holdings of the registered assets, that net
\* minus the initial balance, and (price, holding, balance) of the named
\* asset.
C14_GettersPure ==
  [][IsGetter(last') =>
       /\ UNCHANGED <<investments, investments_timesteps,
                      investments_future_steps, investments_states, datetime,
                      init_date, timestep, balance, init_balane>>
       /\ get_portfolio_net = RAdd(balance, HoldingsUpTo(Len(investments)))
       /\ calc_profit =
            RSub(RAdd(balance, HoldingsUpTo(Len(investments))), init_balane)
       /\ (last'.op = "return_state" /\ last'.err = "ok") =>
            return_state(last'.name) =
              <<Price(last'.name), Hold(last'.name), balance>>]_vars

C14_Witness ==
  /\ last.op = "get_portfolio_net"
  /\ Tracked = Names
  /\ \A name \in Names : RLess(Zero, Hold(name)) /\ Hold(name) # Price(name)
  /\ get_portfolio_net # balance

====
